---------------------------- MODULE Spec2Model ----------------------------
(***************************************************************************)
(* PCG32 generator of src/src/lib.rs (struct Pcg32: new, default,          *)
(* generate, gen, derived Clone).                                          *)
(*                                                                         *)
(* Fixed-width integers are sequences of bytes, most significant byte      *)
(* first: a u64 is 8 bytes, a u32 is 4 bytes, so that the literal          *)
(* 0x853c49e6748fea9b reads <<133,60,73,230,116,143,234,155>>.  All        *)
(* arithmetic is done byte by byte with explicit carries, which keeps the  *)
(* width of the Rust types (wrapping modulo 2^64, truncation to 32 bits).  *)
(***************************************************************************)
EXTENDS Integers, Sequences, FiniteSets, TLC

VARIABLES rng, ctor, outs, mark, age, s, call

vars == <<rng, ctor, outs, mark, age, s, call>>

\* ------------------------------------------------------------------ bounds
\* generate() calls made on one generator value since its construction
MaxCalls == 258
\* the same, in the two-generator specification
MaxPairCalls == 3

\* ------------------------------------------------------- fixed-width bytes
\* number of bytes of a u64 (the fields state and inc)
U64Bytes == 8
\* number of bytes of a u32 (the value generate returns)
U32Bytes == 4

\* the byte of weight 256^k of a, 0 beyond its width
ByteOf(a, k) == IF k >= 0 /\ k < Len(a) THEN a[Len(a) - k] ELSE 0

IsU64(a) == /\ DOMAIN a = 1..U64Bytes
            /\ \A i \in 1..U64Bytes : a[i] \in 0..255

IsU32(a) == /\ DOMAIN a = 1..U32Bytes
            /\ \A i \in 1..U32Bytes : a[i] \in 0..255

RECURSIVE AddFrom(_, _, _, _)
AddFrom(a, b, k, c) ==
  IF k = Len(a) THEN <<>>
  ELSE LET t == ByteOf(a, k) + ByteOf(b, k) + c
       IN  AddFrom(a, b, k + 1, t \div 256) \o <<t % 256>>

\* u64::wrapping_add: the carry out of the top byte is dropped
WrappingAdd(a, b) == AddFrom(a, b, 0, 0)

RECURSIVE ColSum(_, _, _, _)
ColSum(a, b, k, i) ==
  IF i > k THEN 0 ELSE ByteOf(a, i) * ByteOf(b, k - i) + ColSum(a, b, k, i + 1)

RECURSIVE MulFrom(_, _, _, _)
MulFrom(a, b, k, c) ==
  IF k = Len(a) THEN <<>>
  ELSE LET t == ColSum(a, b, k, 0) + c
       IN  MulFrom(a, b, k + 1, t \div 256) \o <<t % 256>>

\* u64::wrapping_mul: the columns of weight 256^8 and above are dropped
WrappingMul(a, b) == MulFrom(a, b, 0, 0)

\* a >> n on an unsigned integer, 0 <= n < 8 * Len(a)
Shr(a, n) ==
  LET q == n \div 8
      r == n % 8
  IN  [i \in 1..Len(a) |->
         LET k == Len(a) - i
         IN  (ByteOf(a, k + q) \div 2^r) + ((ByteOf(a, k + q + 1) % 2^r) * 2^(8 - r))]

\* a << n on an unsigned integer, 0 <= n < 8 * Len(a): the bits shifted out
\* at the top are lost
Shl(a, n) ==
  LET q == n \div 8
      r == n % 8
  IN  [i \in 1..Len(a) |->
         LET k == Len(a) - i
         IN  ((ByteOf(a, k - q) * 2^r) % 256) + (ByteOf(a, k - q - 1) \div 2^(8 - r))]

RECURSIVE XorNat(_, _)
XorNat(x, y) ==
  IF x = 0 THEN y
  ELSE IF y = 0 THEN x
  ELSE ((x + y) % 2) + 2 * XorNat(x \div 2, y \div 2)

RECURSIVE OrNat(_, _)
OrNat(x, y) ==
  IF x = 0 THEN y
  ELSE IF y = 0 THEN x
  ELSE (IF x % 2 = 1 \/ y % 2 = 1 THEN 1 ELSE 0) + 2 * OrNat(x \div 2, y \div 2)

\* a ^ b
BitXor(a, b) == [i \in 1..Len(a) |-> XorNat(a[i], b[i])]

\* a | b
BitOr(a, b) == [i \in 1..Len(a) |-> OrNat(a[i], b[i])]

\* `as u32` on a u64: the low 32 bits
AsU32(a) == [i \in 1..U32Bytes |-> ByteOf(a, U32Bytes - i)]

\* u32::rotate_right(x, n): a circular rotation by n mod 32 bits
RotateRight(x, n) ==
  LET m == ByteOf(n, 0) % 32
      q == m \div 8
      r == m % 8
  IN  [i \in 1..U32Bytes |->
         LET k == U32Bytes - i
         IN  (ByteOf(x, (k + q) % U32Bytes) \div 2^r)
             + ((ByteOf(x, (k + q + 1) % U32Bytes) % 2^r) * 2^(8 - r))]

\* ---------------------------------------------------------------- Pcg32
\* const MUL: u64 = 6364136223846793005 = 0x5851f42d4c957f2d
MUL == <<88, 81, 244, 45, 76, 149, 127, 45>>

\* the literal 1 of type u64
One == <<0, 0, 0, 0, 0, 0, 0, 1>>

\* the literal 0 of type u64
Zero == <<0, 0, 0, 0, 0, 0, 0, 0>>

\* u64::MAX
Max == <<255, 255, 255, 255, 255, 255, 255, 255>>

\* u64::saturating_add, where wrapping_add is meant
SaturatingAdd(a, b) ==
  LET w == AddFrom(<<0>> \o a, <<0>> \o b, 0, 0)
  IN  IF w[1] = 0 THEN Tail(w) ELSE Max

\* new with additions that stop at u64::MAX
NewSaturating(initstate, initseq) ==
  LET inc == BitOr(Shl(initseq, 1), One)
  IN  [state |-> SaturatingAdd(WrappingMul(SaturatingAdd(inc, initstate), MUL), inc),
       inc   |-> inc]

\* new without the `| 1`
NewNoOr(initstate, initseq) ==
  LET inc == Shl(initseq, 1)
  IN  [state |-> WrappingAdd(WrappingMul(WrappingAdd(inc, initstate), MUL), inc),
       inc   |-> inc]

\* new without the `<< 1`
NewNoShift(initstate, initseq) ==
  LET inc == BitOr(initseq, One)
  IN  [state |-> WrappingAdd(WrappingMul(WrappingAdd(inc, initstate), MUL), inc),
       inc   |-> inc]

\* new that stores initstate as it is given
NewUnmixed(initstate, initseq) ==
  [state |-> initstate, inc |-> BitOr(Shl(initseq, 1), One)]

\* Pcg32::new
New(initstate, initseq) ==
  LET inc == BitOr(Shl(initseq, 1), One)
  IN  [state |-> WrappingAdd(WrappingMul(WrappingAdd(inc, initstate), MUL), inc),
       inc   |-> inc]

\* default derived from the seed pair (0, 0)
DefaultFromZeroSeeds == New(Zero, Zero)

\* <Pcg32 as Default>::default: state 0x853c49e6748fea9b, inc 0xda3e39cb94b95bdb
Default ==
  [state |-> <<133, 60, 73, 230, 116, 143, 234, 155>>,
   inc   |-> <<218, 62, 57, 203, 148, 185, 91, 219>>]

\* let xorshifted = (((s >> 18) ^ s) >> 27) as u32
Xorshifted(x) == AsU32(Shr(BitXor(Shr(x, 18), x), 27))

\* the rotation amount taken one bit too low
RotAmountWide(x) == AsU32(Shr(x, 58))

\* the rotation amount, (s >> 59) as u32
RotAmount(x) == AsU32(Shr(x, 59))

\* the value generate returns, from the state s captured on entry
Output(x) == RotateRight(Xorshifted(x), RotAmount(x))

\* the step without the increment
AdvanceNoInc(x, inc) == WrappingMul(x, MUL)

\* the state generate stores: s.wrapping_mul(MUL).wrapping_add(self.inc)
Advance(x, inc) == WrappingAdd(WrappingMul(x, MUL), inc)

\* generate that computes its value from the state it has just stored
GenerateOfPostState(self) ==
  LET x == Advance(self.state, self.inc)
  IN  [self |-> [state |-> x, inc |-> self.inc],
       ret  |-> Output(x)]

\* generate that overwrites inc
GenerateOfBumpInc(self) ==
  LET x == self.state
  IN  [self |-> [state |-> Advance(x, self.inc), inc |-> x],
       ret  |-> Output(x)]

\* Pcg32::generate on the generator self: the generator after the call and
\* the value returned
GenerateOf(self) ==
  LET x == self.state
  IN  [self |-> [state |-> Advance(x, self.inc), inc |-> self.inc],
       ret  |-> Output(x)]

\* Pcg32::gen, the alias: self.generate()
GenOf(self) == GenerateOf(self)

\* #[derive(Clone)]: a field-by-field copy
CloneOf(self) == [state |-> self.state, inc |-> self.inc]

\* ------------------------------------------------------------ the inputs
\* the seed pairs <<initstate, initseq>> the generators are built from
DocSeed == << <<255, 48, 101, 37, 57, 235, 234, 169>>, <<49, 91, 250, 228, 138, 222, 33, 70>> >>
\* the same with bit 63 of initseq flipped
DocSeed63 == << <<255, 48, 101, 37, 57, 235, 234, 169>>, <<177, 91, 250, 228, 138, 222, 33, 70>> >>
\* the same with bit 62 of initseq flipped
DocSeed62 == << <<255, 48, 101, 37, 57, 235, 234, 169>>, <<113, 91, 250, 228, 138, 222, 33, 70>> >>
\* compare_with_official_library: (0x99a93b4a325d9348, 0xebee5b2aa08119cb)
SeedA == << <<153, 169, 59, 74, 50, 93, 147, 72>>, <<235, 238, 91, 42, 160, 129, 25, 203>> >>
\* compare_with_official_library: (0x01f125a59ffb5a04, 0x70f7e17e846603e5)
SeedB == << <<1, 241, 37, 165, 159, 251, 90, 4>>, <<112, 247, 225, 126, 132, 102, 3, 229>> >>
\* compare_with_rand_pcg_crate: (0xf930cb32d6de10de, 0x9235e8751c5b6654)
SeedR1 == << <<249, 48, 203, 50, 214, 222, 16, 222>>, <<146, 53, 232, 117, 28, 91, 102, 84>> >>
\* compare_with_rand_pcg_crate: (0x15a055655308631b, 0xd7c57990690d1a4e)
SeedR2 == << <<21, 160, 85, 101, 83, 8, 99, 27>>, <<215, 197, 121, 144, 105, 13, 26, 78>> >>
\* (0x9f282d9a7c764541, 0): new gives the state of default() with inc = 1
SeedD1 == << <<159, 40, 45, 154, 124, 118, 69, 65>>, Zero >>
\* 0x8000000000000000
Top == <<128, 0, 0, 0, 0, 0, 0, 0>>

Seeds ==
  { DocSeed, DocSeed63, DocSeed62, SeedA, SeedB, SeedR1, SeedR2, SeedD1,
    <<Zero, Zero>>, <<Zero, Top>>, <<Zero, Max>>, <<Max, Zero>>, <<Max, Max>> }

\* how a generator value came to be: by default(), by new(initstate, initseq),
\* or by clone()
ByDefault == [kind |-> "default", initstate |-> <<>>, initseq |-> <<>>]
ByNew(sd) == [kind |-> "new", initstate |-> sd[1], initseq |-> sd[2]]
ByClone == [kind |-> "clone", initstate |-> <<>>, initseq |-> <<>>]

Ctors == {ByDefault} \cup {ByNew(sd) : sd \in Seeds}

Construct(c) == IF c.kind = "default" THEN Default ELSE New(c.initstate, c.initseq)

\* ------------------------------------------------------- the state machine
\* rng[i]   the generator held in variable i of the caller
\* ctor[i]  how rng[i] was made
\* outs[i]  the values generate returned on rng[i], since the last time the
\*          generators were made or cloned
\* mark[i]  rng[i] as it was at that time
\* age[i]   the generate calls behind rng[i], since its construction
\* s        the local s of the latest generate call, <<>> before any
\* call     the latest operation and the variable it was called on

\* a store that writes every generator, as if the state were shared
StoreShared(r, i, v) == [j \in DOMAIN r |-> v]

\* the assignment self.state = ... : it writes the generator it is called on
Store(r, i, v) == [r EXCEPT ![i] = v]

InitOn(slots) ==
  /\ ctor \in [slots -> Ctors]
  /\ rng = [i \in slots |-> Construct(ctor[i])]
  /\ outs = [i \in slots |-> <<>>]
  /\ mark = rng
  /\ age = [i \in slots |-> 0]
  /\ s = <<>>
  /\ call = [op |-> "construct", slot |-> 0]

Called(i, bound, op, r) ==
  /\ age[i] < bound
  /\ rng' = Store(rng, i, r.self)
  /\ outs' = [outs EXCEPT ![i] = Append(@, r.ret)]
  /\ s' = rng[i].state
  /\ age' = [age EXCEPT ![i] = @ + 1]
  /\ call' = [op |-> op, slot |-> i]
  /\ UNCHANGED <<ctor, mark>>

\* rng[i].generate()
Generate(i, bound) == Called(i, bound, "generate", GenerateOf(rng[i]))

\* rng[i].gen()
Gen(i, bound) == Called(i, bound, "gen", GenOf(rng[i]))

\* rng[j] = rng[i].clone()
Clone(i, j) ==
  /\ i # j
  /\ rng' = [rng EXCEPT ![j] = CloneOf(rng[i])]
  /\ ctor' = [ctor EXCEPT ![j] = ByClone]
  /\ outs' = [k \in DOMAIN outs |-> <<>>]
  /\ mark' = rng'
  /\ age' = [age EXCEPT ![j] = age[i]]
  /\ call' = [op |-> "clone", slot |-> i]
  /\ UNCHANGED s

\* one generator, a long run
Init == InitOn({1})

Next ==
  \E i \in DOMAIN rng :
    \/ Generate(i, MaxCalls)
    \/ Gen(i, MaxCalls)

Spec == Init /\ [][Next]_vars

\* two generators, short runs, clones
InitPair == InitOn({1, 2})

NextPair ==
  \E i \in DOMAIN rng :
    \/ Generate(i, MaxPairCalls)
    \/ Gen(i, MaxPairCalls)
    \/ \E j \in DOMAIN rng : Clone(i, j)

SpecPair == InitPair /\ [][NextPair]_vars

\* ------------------------------------------------ the reference vectors
\* compare_with_official_library: the values the official library returns for
\* Pcg32::default(), for SeedA and for SeedB
OfficialDefault ==
  <<<<21,44,167,141>>, <<2,124,96,3>>, <<203,7,187,243>>, <<249,139,239,238>>,
     <<28,215,119,227>>, <<164,226,149,144>>, <<102,30,75,109>>, <<9,59,158,14>>,
     <<183,233,133,29>>, <<231,31,46,77>>, <<189,178,160,113>>, <<70,151,83,242>>,
     <<212,25,91,68>>, <<141,91,46,10>>, <<231,73,191,70>>, <<115,112,187,28>>,
     <<185,173,33,248>>, <<207,173,33,224>>, <<132,63,169,34>>, <<241,107,83,94>>,
     <<139,230,224,72>>, <<221,126,52,131>>, <<209,54,199,234>>, <<120,134,183,22>>,
     <<222,175,208,35>>, <<165,110,238,189>>, <<68,157,255,42>>, <<48,168,241,51>>,
     <<95,180,240,239>>, <<14,140,68,121>>, <<27,35,38,167>>, <<171,127,152,223>>,
     <<18,66,59,184>>, <<188,105,60,54>>, <<106,52,48,161>>, <<83,174,180,142>>,
     <<208,176,132,111>>, <<7,179,13,193>>, <<61,170,64,14>>, <<238,71,85,3>>,
     <<203,208,97,21>>, <<107,68,41,18>>, <<162,27,123,242>>, <<161,73,112,54>>,
     <<219,170,125,76>>, <<238,132,74,25>>, <<18,66,20,159>>, <<155,127,35,25>>,
     <<19,181,87,74>>, <<218,203,189,167>>, <<110,111,81,172>>, <<187,44,231,88>>,
     <<164,11,76,121>>, <<82,161,112,96>>, <<130,129,10,233>>, <<186,98,185,3>>,
     <<33,107,203,82>>, <<12,120,129,157>>, <<88,110,190,111>>, <<229,57,206,53>>,
     <<43,246,140,239>>, <<42,202,55,154>>, <<36,156,161,221>>, <<152,35,206,21>>,
     <<64,250,171,101>>, <<227,130,194,78>>, <<53,99,104,69>>, <<210,227,128,132>>,
     <<145,75,92,35>>, <<117,91,251,92>>, <<239,197,234,218>>, <<117,42,128,115>>,
     <<85,162,196,144>>, <<174,117,93,141>>, <<246,41,94,98>>, <<224,102,167,80>>,
     <<220,111,205,139>>, <<38,153,72,198>>, <<12,52,221,255>>, <<233,90,64,28>>,
     <<249,14,64,74>>, <<77,158,46,210>>, <<49,20,108,212>>, <<133,213,149,221>>,
     <<38,113,248,2>>, <<1,3,144,1>>, <<150,150,162,134>>, <<8,51,240,61>>,
     <<209,50,240,141>>, <<170,143,93,72>>, <<244,205,211,236>>, <<61,159,117,213>>,
     <<233,203,15,165>>, <<3,51,213,129>>, <<38,245,203,242>>, <<230,227,24,165>>,
     <<193,180,149,167>>, <<44,22,92,123>>, <<142,244,164,96>>, <<47,179,184,34>>,
     <<222,209,243,57>>, <<187,15,39,121>>, <<153,58,69,108>>, <<175,74,223,197>>,
     <<129,190,250,252>>, <<210,120,46,1>>, <<163,25,105,164>>, <<209,98,69,75>>,
     <<174,179,46,5>>, <<43,87,77,150>>, <<69,117,148,212>>, <<92,107,157,174>>,
     <<88,174,211,120>>, <<149,127,23,18>>, <<69,106,202,248>>, <<4,227,72,87>>,
     <<92,95,226,180>>, <<252,232,95,87>>, <<21,121,213,186>>, <<203,132,244,250>>,
     <<214,14,77,27>>, <<18,191,130,55>>, <<157,172,172,66>>, <<57,195,59,130>>,
     <<46,168,62,47>>, <<6,48,80,101>>, <<44,9,85,158>>, <<112,105,86,75>>,
     <<3,136,173,166>>, <<19,191,134,142>>, <<56,86,246,209>>, <<111,48,97,131>>,
     <<15,73,116,227>>, <<28,86,192,240>>, <<73,158,93,99>>, <<21,66,61,189>>,
     <<64,127,200,160>>, <<169,201,123,35>>, <<223,223,253,177>>, <<116,182,92,124>>,
     <<17,239,163,147>>, <<75,241,96,159>>, <<36,102,98,64>>, <<213,171,183,218>>,
     <<246,255,90,251>>, <<76,226,36,180>>, <<7,191,191,109>>, <<249,46,131,38>>,
     <<236,9,134,5>>, <<166,77,243,150>>, <<54,90,88,103>>, <<14,45,132,84>>,
     <<175,152,234,230>>, <<3,246,7,109>>, <<85,195,189,56>>, <<0,7,201,187>>,
     <<155,143,193,143>>, <<82,102,118,84>>, <<165,5,236,149>>, <<20,231,101,2>>,
     <<197,111,154,39>>, <<161,192,214,145>>, <<209,190,2,21>>, <<135,253,103,101>>,
     <<56,72,138,121>>, <<176,233,39,48>>, <<199,183,153,26>>, <<174,197,80,28>>,
     <<138,48,1,79>>, <<173,15,120,171>>, <<91,85,202,23>>, <<125,83,67,40>>,
     <<36,212,191,75>>, <<228,160,164,234>>, <<211,71,121,72>>, <<80,145,187,202>>,
     <<213,101,42,206>>, <<183,174,127,245>>, <<200,40,106,141>>, <<17,240,109,111>>,
     <<22,194,252,190>>, <<27,5,109,238>>, <<134,130,173,82>>, <<216,237,124,228>>,
     <<211,186,164,31>>, <<197,18,115,11>>, <<6,233,140,230>>, <<30,187,128,216>>,
     <<31,195,36,162>>, <<58,231,54,145>>, <<49,201,45,224>>, <<116,193,144,210>>,
     <<189,1,162,44>>, <<215,133,57,17>>, <<75,108,97,214>>, <<97,127,43,244>>,
     <<127,236,148,162>>, <<35,180,223,97>>, <<110,49,60,163>>, <<165,129,169,31>>,
     <<134,94,54,64>>, <<70,211,58,74>>, <<59,105,3,47>>, <<78,92,121,184>>,
     <<17,159,182,219>>, <<18,233,236,21>>, <<245,131,121,220>>, <<184,5,4,84>>,
     <<10,23,217,190>>, <<127,119,44,4>>, <<225,16,104,233>>, <<133,159,177,222>>,
     <<102,145,86,49>>, <<86,97,148,184>>, <<14,155,201,106>>, <<37,240,236,10>>,
     <<6,138,75,13>>, <<129,42,202,43>>, <<150,9,158,167>>, <<18,128,186,195>>,
     <<157,144,225,127>>, <<35,71,157,153>>, <<244,165,152,116>>, <<166,64,148,95>>,
     <<110,56,108,205>>, <<138,231,150,92>>, <<150,35,218,1>>, <<141,135,137,7>>,
     <<63,82,227,152>>, <<35,118,115,176>>, <<153,222,44,37>>, <<3,163,45,12>>,
     <<100,124,213,244>>, <<47,58,65,142>>, <<112,228,21,245>>, <<187,80,84,238>>,
     <<151,19,95,137>>, <<190,165,245,20>>, <<202,236,213,159>>, <<16,39,36,171>>,
     <<205,89,114,83>>, <<206,70,251,152>>, <<188,85,246,250>>, <<221,49,136,214>>,
     <<149,40,167,14>>, <<100,26,194,121>>, <<207,79,12,229>>, <<31,138,80,157>>,
     <<204,231,121,124>>, <<26,255,40,202>>, <<239,125,49,199>>, <<233,81,41,49>>,
     <<159,95,1,216>>, <<148,163,250,249>>, <<40,249,216,189>>, <<210,187,92,144>> >>
OfficialSeedA ==
  <<<<18,117,25,223>>, <<196,134,67,19>>, <<254,156,181,64>>, <<126,180,39,64>>,
     <<255,61,209,252>>, <<254,19,144,215>>, <<221,116,55,136>>, <<126,50,89,172>>,
     <<92,111,92,87>>, <<31,102,154,165>>, <<233,186,47,216>>, <<235,181,198,233>>,
     <<171,239,164,167>>, <<19,231,100,219>>, <<120,136,102,47>>, <<83,109,156,115>>,
     <<82,116,6,241>>, <<14,21,81,120>>, <<171,84,76,107>>, <<166,64,73,163>>,
     <<51,68,168,53>>, <<129,62,122,239>>, <<198,229,247,25>>, <<31,236,123,187>>,
     <<227,31,210,198>>, <<67,112,167,200>>, <<42,7,237,242>>, <<239,127,232,160>>,
     <<18,220,26,112>>, <<118,94,53,236>>, <<27,218,255,8>>, <<124,133,214,12>>,
     <<147,47,252,232>>, <<110,168,26,214>>, <<59,172,168,255>>, <<184,171,25,150>>,
     <<35,200,186,92>>, <<242,52,105,206>>, <<251,78,77,250>>, <<211,43,214,121>>,
     <<218,227,114,235>>, <<217,251,143,46>>, <<72,151,152,145>>, <<78,34,96,232>>,
     <<221,58,109,197>>, <<124,175,4,121>>, <<132,212,202,60>>, <<162,95,24,126>>,
     <<46,82,11,149>>, <<165,133,69,148>>, <<252,24,80,198>>, <<37,91,128,66>>,
     <<138,175,185,210>>, <<249,212,23,104>>, <<43,140,210,185>>, <<71,110,30,38>>,
     <<141,30,207,125>>, <<213,204,168,174>>, <<16,53,77,202>>, <<8,1,169,175>>,
     <<188,122,96,169>>, <<120,207,87,212>>, <<56,215,105,24>>, <<136,122,41,45>>,
     <<216,64,152,228>>, <<221,163,84,175>>, <<242,187,71,119>>, <<239,177,111,48>>,
     <<80,10,23,33>>, <<46,71,16,248>>, <<163,3,222,60>>, <<85,103,249,169>>,
     <<66,130,21,82>>, <<124,230,39,31>>, <<42,38,87,117>>, <<60,42,235,224>>,
     <<26,191,226,13>>, <<16,241,133,59>>, <<65,53,144,122>>, <<7,45,80,158>>,
     <<99,236,139,38>>, <<226,119,118,172>>, <<50,175,182,212>>, <<243,61,42,227>>,
     <<46,70,251,55>>, <<168,86,160,247>>, <<188,8,16,56>>, <<19,182,101,245>>,
     <<184,180,54,6>>, <<166,60,180,2>>, <<148,37,130,32>>, <<228,211,117,28>>,
     <<177,176,130,1>>, <<238,17,186,229>>, <<13,103,204,5>>, <<57,177,216,50>>,
     <<232,202,223,188>>, <<145,173,69,151>>, <<40,42,75,21>>, <<27,0,50,151>>,
     <<125,51,232,71>>, <<59,238,88,38>>, <<243,56,121,227>>, <<45,158,15,200>>,
     <<44,139,5,189>>, <<168,250,210,143>>, <<79,75,42,170>>, <<144,114,230,114>>,
     <<21,107,61,169>>, <<33,211,227,180>>, <<123,226,1,245>>, <<209,158,42,19>>,
     <<15,186,33,19>>, <<101,100,71,17>>, <<221,236,43,126>>, <<175,31,17,85>>,
     <<205,122,142,167>>, <<13,218,82,122>>, <<47,13,14,167>>, <<152,210,122,242>>,
     <<80,51,244,71>>, <<12,12,124,95>>, <<250,16,70,70>>, <<179,78,244,29>>,
     <<167,218,168,29>>, <<111,161,124,9>>, <<144,171,236,188>>, <<108,243,55,241>>,
     <<228,220,180,9>>, <<91,212,142,148>>, <<210,8,241,38>>, <<71,242,220,218>>,
     <<187,159,246,143>>, <<101,65,208,192>>, <<0,17,176,86>>, <<237,204,160,219>>,
     <<33,80,79,96>>, <<179,100,125,214>>, <<65,218,3,42>>, <<213,104,175,200>>,
     <<128,219,119,188>>, <<233,93,10,83>>, <<74,137,219,170>>, <<173,246,22,56>>,
     <<80,77,106,45>>, <<227,110,234,13>>, <<125,91,213,15>>, <<139,27,59,75>>,
     <<114,172,86,90>>, <<45,122,24,159>>, <<104,16,131,84>>, <<45,218,46,50>>,
     <<6,143,179,225>>, <<77,73,89,154>>, <<209,236,74,185>>, <<159,38,183,94>>,
     <<207,255,58,13>>, <<136,32,145,63>>, <<18,122,134,102>>, <<231,6,129,189>>,
     <<30,88,201,219>>, <<214,97,37,71>>, <<253,16,150,199>>, <<126,19,100,38>>,
     <<27,17,137,235>>, <<252,51,47,220>>, <<182,65,0,245>>, <<11,7,144,27>>,
     <<125,227,201,172>>, <<96,220,171,220>>, <<82,67,164,163>>, <<142,224,156,64>>,
     <<117,144,250,155>>, <<70,64,7,137>>, <<190,239,32,145>>, <<16,73,3,120>>,
     <<165,125,130,3>>, <<187,99,206,133>>, <<37,214,8,243>>, <<81,196,17,94>>,
     <<216,156,240,209>>, <<26,243,187,255>>, <<160,54,65,14>>, <<125,122,57,231>>,
     <<237,170,110,223>>, <<175,255,242,234>>, <<41,89,245,104>>, <<161,237,234,32>>,
     <<140,28,17,64>>, <<123,113,146,193>>, <<231,197,174,148>>, <<67,11,68,213>>,
     <<113,10,19,190>>, <<137,6,245,60>>, <<4,12,28,54>>, <<32,119,99,201>>,
     <<50,62,185,105>>, <<48,32,166,2>>, <<121,3,175,73>>, <<87,89,196,46>>,
     <<223,238,35,64>>, <<105,240,158,154>>, <<36,246,171,227>>, <<2,33,159,58>>,
     <<57,57,167,81>>, <<99,97,7,131>>, <<250,43,176,57>>, <<188,95,174,1>>,
     <<127,4,97,240>>, <<252,45,15,254>>, <<34,251,134,70>>, <<35,89,95,155>>,
     <<183,17,74,106>>, <<233,170,217,19>>, <<4,104,5,171>>, <<216,98,249,162>>,
     <<98,27,76,235>>, <<198,73,92,70>>, <<150,176,28,36>>, <<140,42,34,12>>,
     <<5,144,89,95>>, <<153,154,216,19>>, <<221,11,16,180>>, <<137,158,187,7>>,
     <<158,88,173,239>>, <<87,99,209,133>>, <<252,26,206,167>>, <<193,36,32,47>>,
     <<138,147,112,194>>, <<123,8,183,39>>, <<131,49,161,150>>, <<210,35,58,224>>,
     <<121,165,28,63>>, <<90,249,199,133>>, <<86,96,52,36>>, <<230,219,89,9>>,
     <<129,43,235,249>>, <<64,40,215,38>>, <<60,38,223,185>>, <<113,109,61,192>>,
     <<160,238,19,177>>, <<225,236,171,199>>, <<223,172,38,91>>, <<85,165,114,199>>,
     <<86,212,200,43>>, <<139,186,223,8>>, <<98,105,76,109>>, <<2,39,122,153>>,
     <<198,19,28,74>>, <<174,211,176,106>>, <<239,233,232,130>>, <<229,229,53,174>>,
     <<71,147,197,53>>, <<52,25,133,250>>, <<207,104,169,13>>, <<202,33,249,140>> >>
OfficialSeedB ==
  <<<<109,168,99,149>>, <<219,206,193,199>>, <<128,161,74,145>>, <<183,43,36,41>>,
     <<23,34,88,167>>, <<21,197,130,78>>, <<197,166,105,42>>, <<248,42,189,208>>,
     <<62,194,129,248>>, <<43,158,38,93>>, <<31,131,116,130>>, <<7,232,232,79>>,
     <<53,167,64,17>>, <<168,110,30,91>>, <<125,162,201,129>>, <<197,255,74,178>>,
     <<71,30,126,196>>, <<254,40,108,50>>, <<89,160,180,176>>, <<169,241,179,246>>,
     <<62,96,220,44>>, <<241,142,220,242>>, <<191,31,88,178>>, <<71,217,177,240>>,
     <<193,25,47,55>>, <<116,227,226,226>>, <<199,150,252,75>>, <<226,229,60,135>>,
     <<49,97,9,85>>, <<39,11,227,30>>, <<234,194,179,71>>, <<101,252,128,146>>,
     <<193,68,132,42>>, <<147,82,183,229>>, <<161,46,159,241>>, <<121,154,62,43>>,
     <<169,209,37,128>>, <<169,239,255,177>>, <<91,152,87,248>>, <<54,19,132,214>>,
     <<93,2,52,31>>, <<35,63,182,241>>, <<77,239,162,85>>, <<33,245,212,233>>,
     <<37,121,9,140>>, <<19,75,58,49>>, <<210,126,124,190>>, <<127,240,110,10>>,
     <<216,232,61,198>>, <<250,43,106,50>>, <<239,188,41,13>>, <<2,205,94,124>>,
     <<113,254,23,90>>, <<171,160,215,93>>, <<127,129,192,128>>, <<202,48,10,192>>,
     <<85,147,201,73>>, <<181,154,135,112>>, <<12,170,52,209>>, <<160,224,31,62>>,
     <<156,85,55,182>>, <<193,15,48,41>>, <<207,225,89,196>>, <<3,186,206,210>>,
     <<207,130,136,245>>, <<238,38,7,12>>, <<247,91,60,184>>, <<3,254,255,8>>,
     <<166,251,42,88>>, <<55,240,213,240>>, <<130,174,100,112>>, <<244,13,163,152>>,
     <<118,47,211,217>>, <<204,119,43,108>>, <<214,141,255,42>>, <<239,76,133,164>>,
     <<137,254,5,245>>, <<206,43,99,189>>, <<44,75,125,170>>, <<251,6,91,16>>,
     <<226,243,187,128>>, <<133,126,162,175>>, <<239,47,137,63>>, <<240,119,98,112>>,
     <<1,92,35,169>>, <<203,216,118,110>>, <<190,251,173,222>>, <<32,166,207,204>>,
     <<243,16,34,25>>, <<121,71,129,59>>, <<227,140,127,76>>, <<155,114,117,176>>,
     <<254,129,135,227>>, <<105,99,97,131>>, <<143,55,44,65>>, <<129,141,231,196>>,
     <<198,205,52,202>>, <<10,121,127,28>>, <<34,177,177,122>>, <<29,50,253,233>>,
     <<233,54,60,185>>, <<113,100,83,128>>, <<234,136,148,244>>, <<168,1,38,87>>,
     <<229,115,63,131>>, <<187,81,72,121>>, <<60,228,235,222>>, <<129,212,105,193>>,
     <<116,19,195,93>>, <<108,247,16,30>>, <<72,111,142,188>>, <<77,57,92,182>>,
     <<38,88,59,144>>, <<13,43,1,160>>, <<13,82,188,26>>, <<20,62,65,2>>,
     <<12,210,155,174>>, <<221,73,248,140>>, <<44,194,219,193>>, <<81,60,166,209>>,
     <<9,125,0,237>>, <<3,211,56,186>>, <<28,95,83,184>>, <<19,195,171,187>>,
     <<211,49,149,102>>, <<214,230,73,243>>, <<112,7,24,66>>, <<118,96,107,33>>,
     <<161,163,68,165>>, <<174,123,34,148>>, <<29,127,104,1>>, <<156,133,210,197>>,
     <<187,76,185,219>>, <<109,59,242,201>>, <<116,204,156,62>>, <<225,71,136,193>>,
     <<33,50,231,74>>, <<160,13,70,241>>, <<219,137,245,130>>, <<7,99,130,85>>,
     <<148,104,30,9>>, <<130,193,60,171>>, <<144,94,186,241>>, <<17,13,152,161>>,
     <<244,206,228,225>>, <<121,100,50,36>>, <<109,169,77,83>>, <<190,212,237,115>>,
     <<173,79,179,47>>, <<235,204,8,16>>, <<29,126,194,121>>, <<236,12,133,99>>,
     <<76,74,13,120>>, <<167,34,209,209>>, <<203,160,200,86>>, <<145,79,226,143>>,
     <<67,239,217,169>>, <<106,209,236,107>>, <<44,134,151,177>>, <<39,128,226,11>>,
     <<2,196,212,174>>, <<155,56,198,232>>, <<234,56,39,79>>, <<62,86,50,69>>,
     <<226,250,169,83>>, <<20,102,104,49>>, <<126,58,146,234>>, <<170,138,83,79>>,
     <<146,117,30,160>>, <<101,9,173,137>>, <<58,216,200,139>>, <<186,45,76,230>>,
     <<158,204,34,152>>, <<33,44,153,80>>, <<243,194,92,242>>, <<31,9,241,86>>,
     <<118,35,226,213>>, <<65,88,212,127>>, <<226,38,40,91>>, <<118,178,182,49>>,
     <<47,94,192,140>>, <<216,136,95,230>>, <<33,142,34,129>>, <<105,227,48,142>>,
     <<83,153,210,193>>, <<198,3,221,72>>, <<201,53,196,171>>, <<45,185,41,231>>,
     <<136,183,179,61>>, <<116,144,120,165>>, <<34,87,205,8>>, <<135,227,33,195>>,
     <<58,163,197,75>>, <<98,213,188,225>>, <<23,67,39,201>>, <<6,255,128,212>>,
     <<160,54,93,59>>, <<220,213,145,231>>, <<85,144,79,134>>, <<17,127,9,60>>,
     <<88,214,141,18>>, <<246,44,147,148>>, <<93,72,84,146>>, <<137,87,105,14>>,
     <<55,154,234,183>>, <<140,132,180,83>>, <<34,205,252,95>>, <<182,108,33,49>>,
     <<63,41,2,238>>, <<223,52,0,5>>, <<113,13,121,56>>, <<119,135,112,144>>,
     <<14,212,250,225>>, <<226,178,185,172>>, <<186,239,248,185>>, <<142,84,159,3>>,
     <<160,48,131,4>>, <<168,159,84,59>>, <<135,64,250,107>>, <<61,169,195,30>>,
     <<32,95,54,157>>, <<12,220,9,141>>, <<244,173,118,183>>, <<222,75,73,115>>,
     <<190,180,144,174>>, <<242,66,48,15>>, <<175,189,223,141>>, <<62,239,226,54>>,
     <<47,158,246,50>>, <<234,195,87,54>>, <<186,107,82,95>>, <<109,3,57,105>>,
     <<151,152,61,19>>, <<199,53,213,21>>, <<156,39,160,247>>, <<130,181,232,194>>,
     <<187,200,227,202>>, <<124,8,88,123>>, <<21,122,28,8>>, <<4,226,148,208>>,
     <<58,140,202,10>>, <<143,122,126,123>>, <<100,209,192,16>>, <<170,43,152,91>>,
     <<43,11,176,251>>, <<36,239,239,187>>, <<214,206,77,134>>, <<112,16,178,50>>,
     <<7,119,252,57>>, <<22,153,87,191>>, <<169,81,237,14>>, <<236,33,20,69>>,
     <<176,244,82,239>>, <<235,236,182,242>>, <<230,239,158,51>>, <<149,26,115,219>> >>

\* ------------------------------------------- the reference, bit by bit
\* The published algorithm, written on sequences of bits (least significant
\* bit first), independently of the byte arithmetic above.

\* the bits of an unsigned integer
RefBits(a) ==
  [j \in 1..(8 * Len(a)) |-> (ByteOf(a, (j - 1) \div 8) \div 2^((j - 1) % 8)) % 2]

\* the number of pairs of one bits in column k of the product x * m
RefCol(x, m, k) == Cardinality({i \in 1..k : x[i] = 1 /\ m[k + 1 - i] = 1})

RECURSIVE RefMulAddFrom(_, _, _, _, _)
RefMulAddFrom(x, m, c, k, carry) ==
  IF k > Len(x) THEN <<>>
  ELSE LET t == RefCol(x, m, k) + c[k] + carry
       IN  <<t % 2>> \o RefMulAddFrom(x, m, c, k + 1, t \div 2)

\* (x * m + c) mod 2^Len(x)
RefMulAdd(x, m, c) == RefMulAddFrom(x, m, c, 1, 0)

\* (x + c) mod 2^Len(x)
RefAdd(x, c) == RefMulAdd(x, RefBits(One), c)

\* (q << 1) | 1
RefInc(q) == [j \in 1..Len(q) |-> IF j = 1 THEN 1 ELSE q[j - 1]]

\* x >> 59, a number
RefRot(x) == x[60] + 2 * x[61] + 4 * x[62] + 8 * x[63] + 16 * x[64]

\* the low 32 bits of ((x >> 18) ^ x) >> 27
RefXorshifted(x) ==
  [j \in 1..32 |-> (x[j + 27] + (IF j + 45 <= 64 THEN x[j + 45] ELSE 0)) % 2]

\* the 32-bit right rotation of v by r, 0 <= r
RefRotr(v, r) == [j \in 1..32 |-> v[((j - 1 + r) % 32) + 1]]

\* the XSH-RR output of the state x
RefOutput(x) == RefRotr(RefXorshifted(x), RefRot(x))

\* the LCG step of the state x on the stream inc
RefStep(x, inc) == RefMulAdd(x, RefBits(MUL), inc)

\* pcg32_srandom_r of the reference: state = 0, step, state += initstate, step
RefSrandom(initstate, initseq) ==
  LET inc == RefInc(initseq)
  IN  RefStep(RefAdd(RefStep(RefBits(Zero), inc), initstate), inc)

\* the multiplier as the decimal number 6364136223846793005
MulDecimal == <<6, 3, 6, 4, 1, 3, 6, 2, 2, 3, 8, 4, 6, 7, 9, 3, 0, 0, 5>>

RECURSIVE RefMod(_, _, _, _)
\* the number with the digits d[1..n] in the given base, modulo p
RefMod(d, n, base, p) ==
  IF n = 0 THEN 0 ELSE (RefMod(d, n - 1, base, p) * base + d[n]) % p

\* five primes whose product exceeds 2^64: two numbers below 2^64 that agree
\* modulo each of them are equal
RefPrimes == {32749, 32719, 32717, 32713, 32707}

\* the bytes a are the number with the decimal digits d
SameNumber(a, d) ==
  \A p \in RefPrimes : RefMod(a, Len(a), 256, p) = RefMod(d, Len(d), 10, p)

Last(q) == q[Len(q)]

\* the two sequences agree as far as both go
SamePrefix(p, q) ==
  \A k \in 1..Len(p) : k <= Len(q) => p[k] = q[k]

IsCall == call.op \in {"generate", "gen"}

\* ------------------------------------------------------------- the claims

\* C1 as stated: from default() (state 0x853c49e6748fea9b, inc
\* 0xda3e39cb94b95bdb) the first two values are 0x152ca78d and 0x027c6003,
\* the values go on as the reference vector of the fixture, and that vector
\* has 226 values, so that the 226th call completes it.
C1_VectorOf226 ==
  ctor[1].kind = "default" =>
    /\ SamePrefix(outs[1], OfficialDefault)
    /\ Len(outs[1]) = 226 => Len(outs[1]) = Len(OfficialDefault)

\* C1 amended: the same with the vector of the fixture as it is, 256 values.
C1_VectorOf256 ==
  ctor[1].kind = "default" =>
    /\ mark[1].state = <<133, 60, 73, 230, 116, 143, 234, 155>>
    /\ mark[1].inc = <<218, 62, 57, 203, 148, 185, 91, 219>>
    /\ Len(outs[1]) >= 1 => outs[1][1] = <<21, 44, 167, 141>>
    /\ Len(outs[1]) >= 2 => outs[1][2] = <<2, 124, 96, 3>>
    /\ SamePrefix(outs[1], OfficialDefault)
    /\ Len(outs[1]) = 256 => Len(outs[1]) = Len(OfficialDefault)

C1_Witness ==
  /\ ctor[1].kind = "default"
  /\ Len(outs[1]) = Len(OfficialDefault)

\* C2: new(0xff30652539ebeaa9, 0x315bfae48ade2146) returns 0xf98695e1 from
\* its first generate() and 0x7e3920e2 from its second.
C2_DocExample ==
  ctor[1] = ByNew(DocSeed) =>
    /\ Len(outs[1]) >= 1 => outs[1][1] = <<249, 134, 149, 225>>
    /\ Len(outs[1]) >= 2 => outs[1][2] = <<126, 57, 32, 226>>

C2_Witness ==
  /\ ctor[1] = ByNew(DocSeed)
  /\ Len(outs[1]) = 2

\* C3: new is total: for every pair of u64 inputs, 0 and 2^64 - 1 included,
\* it yields two u64 values, inc = ((initseq << 1) | 1) mod 2^64 and
\* state = (((inc + initstate) mod 2^64) * 6364136223846793005 + inc) mod 2^64.
C3_NewWraps ==
  \A i \in DOMAIN rng :
    (ctor[i].kind = "new" /\ age[i] = 0) =>
      LET inc == RefInc(RefBits(ctor[i].initseq))
          sum == RefAdd(inc, RefBits(ctor[i].initstate))
      IN  /\ IsU64(rng[i].state)
          /\ IsU64(rng[i].inc)
          /\ SameNumber(MUL, MulDecimal)
          /\ RefBits(rng[i].inc) = inc
          /\ RefBits(rng[i].state) = RefMulAdd(sum, RefBits(MUL), inc)

C3_Witness ==
  /\ ctor[1] = ByNew(<<Max, Max>>)
  /\ age[1] = 0

\* C4: in every reachable state of a generator, made by new from any seeds
\* or by default(), after any number of generate() calls, inc is odd.
C4_IncOdd ==
  \A i \in DOMAIN rng : ByteOf(rng[i].inc, 0) % 2 = 1

C4_Witness ==
  /\ ctor[1] = ByNew(<<Zero, Zero>>)
  /\ age[1] >= 2

\* C5: generate() and gen() never change inc: after any number of calls inc
\* is the value given at construction.
C5_IncFixed ==
  \A i \in DOMAIN rng : rng[i].inc = mark[i].inc

C5_Witness ==
  /\ age[1] >= 2
  /\ call.op = "gen"

\* C6: for every initstate and initseq, new(initstate, initseq) and
\* new(initstate, initseq XOR 2^63) are equal generators and return the same
\* value on every later generate() call.
C6_TopBitIgnored ==
  \A i, j \in DOMAIN rng :
    ( /\ ctor[i].kind = "new"
      /\ ctor[j].kind = "new"
      /\ ctor[i].initstate = ctor[j].initstate
      /\ ctor[j].initseq = BitXor(ctor[i].initseq, Top) ) =>
        /\ mark[i] = mark[j]
        /\ SamePrefix(outs[i], outs[j])

C6_Witness ==
  /\ ctor[1] = ByNew(DocSeed)
  /\ ctor[2] = ByNew(DocSeed63)
  /\ Len(outs[1]) >= 2
  /\ Len(outs[2]) >= 2

\* C7: two generators with equal (state, inc), built from the same seeds or
\* one cloned from the other, return the same value on their k-th
\* generate() call for every k, and a generate() call on one of them leaves
\* the other one, and the values it has returned, unchanged.
C7_SameValues ==
  \A i, j \in DOMAIN rng :
    /\ ctor[i].kind = "clone" => mark[i] = mark[j]
    /\ mark[i] = mark[j] => SamePrefix(outs[i], outs[j])

C7_OthersUntouched ==
  \A i, j \in DOMAIN rng :
    (i # j /\ Len(outs'[i]) = Len(outs[i]) + 1) =>
      /\ rng'[j] = rng[j]
      /\ outs'[j] = outs[j]

C7_Deterministic == [](C7_SameValues) /\ [][C7_OthersUntouched]_vars

C7_Witness ==
  /\ ctor[2].kind = "clone"
  /\ age[1] > Len(outs[1])
  /\ Len(outs[1]) = 2
  /\ Len(outs[2]) = 1

\* C8 as stated: two generators with the same state and different inc
\* return different values from the first generate() call on each.
C8_DivergeAtFirstCall ==
  \A i, j \in DOMAIN rng :
    ( /\ mark[i].state = mark[j].state
      /\ mark[i].inc # mark[j].inc
      /\ Len(outs[i]) >= 1
      /\ Len(outs[j]) >= 1 ) =>
        outs[i][1] # outs[j][1]

\* C8 amended: two generators with the same state and different inc return
\* the same value from the first generate() call on each, and their states
\* differ after that call.
C8_StatesDivergeAfterFirstCall ==
  \A i, j \in DOMAIN rng :
    ( /\ mark[i].state = mark[j].state
      /\ mark[i].inc # mark[j].inc
      /\ Len(outs[i]) >= 1
      /\ Len(outs[j]) >= 1 ) =>
        /\ outs[i][1] = outs[j][1]
        /\ (Len(outs[i]) = 1 /\ Len(outs[j]) = 1) => rng[i].state # rng[j].state

C8_Witness ==
  /\ ctor[1] = ByDefault
  /\ ctor[2] = ByNew(SeedD1)
  /\ Len(outs[1]) = 1
  /\ Len(outs[2]) = 1

\* C9: a generate() call, with s the state before it, stores
\* (s * 6364136223846793005 + inc) mod 2^64 and returns the 32-bit right
\* rotation by s >> 59 of the low 32 bits of ((s >> 18) XOR s) >> 27, a
\* value of s and not of the new state; new followed by n calls gives the
\* sequence of the reference PCG32, for every seed pair and every n.
C9_ReferenceStep ==
  /\ \A i \in DOMAIN rng :
       /\ (ctor[i].kind = "new" /\ age[i] = 0) =>
            /\ RefBits(rng[i].inc) = RefInc(RefBits(ctor[i].initseq))
            /\ RefBits(rng[i].state) =
                 RefSrandom(RefBits(ctor[i].initstate), RefBits(ctor[i].initseq))
       /\ ctor[i] = ByNew(SeedA) => SamePrefix(outs[i], OfficialSeedA)
       /\ ctor[i] = ByNew(SeedB) => SamePrefix(outs[i], OfficialSeedB)
  /\ IsCall =>
       /\ SameNumber(MUL, MulDecimal)
       /\ RefBits(rng[call.slot].state) = RefStep(RefBits(s), RefBits(rng[call.slot].inc))
       /\ RefBits(Last(outs[call.slot])) = RefOutput(RefBits(s))

C9_Witness ==
  /\ ctor[1] = ByNew(SeedB)
  /\ Len(outs[1]) = Len(OfficialSeedB)
  /\ call.op = "generate"

\* C10: for every state s captured by generate(), the rotation amount
\* s >> 59 lies in 0..31; when the top five bits of s are zero it is 0 and
\* the value returned is the low 32 bits of ((s >> 18) XOR s) >> 27 as they
\* are.
C10_Rotation ==
  IsCall =>
    /\ IsU32(RotAmount(s))
    /\ \A k \in 1..3 : ByteOf(RotAmount(s), k) = 0
    /\ ByteOf(RotAmount(s), 0) \in 0..31
    /\ ByteOf(RotAmount(s), 0) = RefRot(RefBits(s))
    /\ (\A b \in 60..64 : RefBits(s)[b] = 0) =>
         /\ RotAmount(s) = <<0, 0, 0, 0>>
         /\ RefBits(Last(outs[call.slot])) = RefXorshifted(RefBits(s))

C10_Witness ==
  /\ IsCall
  /\ \A b \in 60..64 : RefBits(s)[b] = 0
  /\ RefBits(s)[59] = 1

=============================================================================
